---- MODULE Spec2Model ----
(***************************************************************************)
(* Model of the UWorld IDs -> tags -> cards add-on (src/__init__.py).      *)
(* Text is modelled as a sequence of one-character strings, so that the    *)
(* string operations of the code (strip, startswith, endswith, replace,    *)
(* join, the \d+ scan) are computed character by character.                *)
(***************************************************************************)
EXTENDS Integers, Sequences, FiniteSets, TLC

(* ------------------------------ bounds --------------------------------- *)
MaxLen == 3
NumCards == 2
MaxIds == 2
MaxIdLen == 1

(* --------------------------- program constants ------------------------- *)
VERSION_LABELS == <<"V12", "V11">>
DEFAULT_VERSION_LABEL == "V12"
STEP_LABELS == <<"Step 1", "Step 2", "Step 3">>
DEFAULT_STEP_LABEL == "Step 1"
UWORLD_SEGMENT_V12 ==
    <<":", ":", "#", "U", "W", "o", "r", "l", "d", ":", ":", "S", "t", "e", "p", ":", ":">>
UWORLD_SEGMENT_V11 ==
    <<":", ":", "#", "U", "W", "o", "r", "l", "d", ":", ":">>
AK_Step1_v12 == <<"A", "K", "_", "S", "t", "e", "p", "1", "_", "v", "1", "2">>
AK_Step1_v11 == <<"A", "K", "_", "S", "t", "e", "p", "1", "_", "v", "1", "1">>
AK_Step3_v12 == <<"A", "K", "_", "S", "t", "e", "p", "3", "_", "v", "1", "2">>
Suffix_v11 == <<"_", "v", "1", "1">>
VERSION_VALUE == [V12 |-> AK_Step1_v12, V11 |-> AK_Step1_v11]

(* --------------------------- string primitives ------------------------- *)
\* characters matched by the pattern \d of a str pattern: the ASCII digits
\* and the other Unicode decimal digits (U+0663 stands for those)
AsciiDigits == {"0", "1", "2", "3", "4", "5", "6", "7", "8", "9"}
\* IsDigit for a pattern that also takes the separator "," as part of a number
IsDigit_with_comma(c) == c \in AsciiDigits \cup {"U+0663", ","}
IsDigit(c) == c \in AsciiDigits \cup {"U+0663"}
\* characters removed by str.strip()
IsSpace(c) == c \in {" ", "\t", "\n"}

startswith(s, p) == Len(s) >= Len(p) /\ SubSeq(s, 1, Len(p)) = p
endswith(s, p) == Len(s) >= Len(p) /\ SubSeq(s, Len(s) - Len(p) + 1, Len(s)) = p

RECURSIVE lstrip(_)
lstrip(s) == IF s # <<>> /\ IsSpace(Head(s)) THEN lstrip(Tail(s)) ELSE s
RECURSIVE rstrip(_)
rstrip(s) ==
    IF s # <<>> /\ IsSpace(s[Len(s)]) THEN rstrip(SubSeq(s, 1, Len(s) - 1)) ELSE s
strip(s) == rstrip(lstrip(s))

\* join that drops the separator
RECURSIVE join_no_sep(_, _)
join_no_sep(sep, parts) ==
    IF parts = <<>> THEN <<>> ELSE parts[1] \o join_no_sep(sep, Tail(parts))

RECURSIVE join(_, _)
join(sep, parts) ==
    IF parts = <<>> THEN <<>>
    ELSE IF Len(parts) = 1 THEN parts[1]
    ELSE parts[1] \o sep \o join(sep, Tail(parts))

(* --------------------------- core search helpers ----------------------- *)
\* _normalize_version_prefix without the fallback for an empty token
_normalize_version_prefix_no_default(deck_version_value) ==
    LET s == strip(deck_version_value)
    IN IF startswith(s, <<"#">>) THEN s ELSE <<"#">> \o s

_normalize_version_prefix(deck_version_value) ==
    LET s0 == strip(deck_version_value)
        s == IF s0 = <<>> THEN VERSION_VALUE[DEFAULT_VERSION_LABEL] ELSE s0
    IN IF startswith(s, <<"#">>) THEN s ELSE <<"#">> \o s

\* re.finditer(r"\d+", raw): the matches, left to right; cur is the run being read
RECURSIVE finditer_digits(_, _, _)
finditer_digits(raw, cur, acc) ==
    IF raw = <<>> THEN (IF cur = <<>> THEN acc ELSE Append(acc, cur))
    ELSE IF IsDigit(Head(raw)) THEN finditer_digits(Tail(raw), Append(cur, Head(raw)), acc)
    ELSE finditer_digits(Tail(raw), <<>>, IF cur = <<>> THEN acc ELSE Append(acc, cur))

\* unique_loop without the membership test: repeated matches are kept
RECURSIVE unique_loop_keep_all(_, _, _)
unique_loop_keep_all(xs, seen, out) ==
    IF xs = <<>> THEN out
    ELSE unique_loop_keep_all(Tail(xs), seen \cup {Head(xs)}, Append(out, Head(xs)))

RECURSIVE unique_loop(_, _, _)
unique_loop(xs, seen, out) ==
    IF xs = <<>> THEN out
    ELSE IF Head(xs) \notin seen
         THEN unique_loop(Tail(xs), seen \cup {Head(xs)}, Append(out, Head(xs)))
         ELSE unique_loop(Tail(xs), seen, out)

_extract_unique_int_strings(raw) ==
    unique_loop(finditer_digits(raw, <<>>, <<>>), {}, <<>>)

\* s.replace('"', r'\"')
RECURSIVE _esc(_)
_esc(s) ==
    IF s = <<>> THEN <<>>
    ELSE (IF Head(s) = "\"" THEN <<"\\", "\"">> ELSE <<Head(s)>>) \o _esc(Tail(s))

\* is_v11_style deciding on the normalized token, unlike _tag_prefix
is_v11_style_normalized(deck_version_value) ==
    LET base == _normalize_version_prefix(deck_version_value)
    IN endswith(base, Suffix_v11) \/ base = <<"#">> \o AK_Step3_v12

is_v11_style(deck_version_value) ==
    endswith(deck_version_value, Suffix_v11) \/ deck_version_value = AK_Step3_v12

_tag_prefix(deck_version_value) ==
    LET base == _normalize_version_prefix(deck_version_value)
    IN IF endswith(deck_version_value, Suffix_v11) \/ deck_version_value = AK_Step3_v12
       THEN base \o UWORLD_SEGMENT_V11
       ELSE base \o UWORLD_SEGMENT_V12

Tag == <<"t", "a", "g", ":", "\"">>
Quote == <<"\"">>
OrSep == <<" ", "O", "R", " ">>

\* [i.strip() for i in ids if i and i.strip()]
RECURSIVE strip_ids(_)
strip_ids(ids) ==
    IF ids = <<>> THEN <<>>
    ELSE (IF strip(Head(ids)) # <<>> THEN <<strip(Head(ids))>> ELSE <<>>)
         \o strip_ids(Tail(ids))

\* exact_fragment with a namespace separator put between prefix and identifier
exact_fragment_sep(prefix, id_s) == Tag \o _esc(prefix \o <<":", ":">> \o id_s) \o Quote
exact_fragment(prefix, id_s) == Tag \o _esc(prefix \o id_s) \o Quote

build_tag_or_query(ids, deck_version_value) ==
    LET prefix == _tag_prefix(deck_version_value)
        ids1 == strip_ids(ids)
        parts == [n \in 1..Len(ids1) |-> exact_fragment(prefix, ids1[n])]
    IN IF ids1 = <<>> THEN <<>>
       ELSE <<"(">> \o join(OrSep, parts) \o <<")">>

\* wildcard_fragment without the wildcard segment
wildcard_fragment_no_star(prefix_base, id_s) ==
    Tag \o _esc(prefix_base) \o _esc(id_s) \o Quote
wildcard_fragment(prefix_base, id_s) ==
    Tag \o _esc(prefix_base) \o <<"*", ":", ":">> \o _esc(id_s) \o Quote

v11_ids_syntax(prefix_base, ids) ==
    IF ids # <<>>
    THEN <<"(">> \o join(OrSep, [n \in 1..Len(ids) |-> wildcard_fragment(prefix_base, ids[n])])
         \o <<")">>
    ELSE <<>>

\* UWorldIdsDialog._current_version_value for the combo-box texts label, step_label
IndexOf(seq, x) == CHOOSE n \in 1..Len(seq) : seq[n] = x
StepDigit(n) == <<"1", "2", "3">>[n]
_current_version_value(label0, step_label0) ==
    LET label == IF label0 \notin {VERSION_LABELS[n] : n \in 1..2}
                 THEN DEFAULT_VERSION_LABEL ELSE label0
        step_label == IF step_label0 \notin {STEP_LABELS[n] : n \in 1..3}
                      THEN DEFAULT_STEP_LABEL ELSE step_label0
        step_num == StepDigit(IndexOf(STEP_LABELS, step_label))
    IN IF label = "V11"
       THEN <<"A", "K", "_", "S", "t", "e", "p", step_num, "_", "v", "1", "1">>
       ELSE <<"A", "K", "_", "S", "t", "e", "p", step_num, "_", "v", "1", "2">>

(* ------------------------------ state ---------------------------------- *)
VARIABLES
    deck_version_value, \* argument of compute_ids_summary / of the helper called
    ids_questions,      \* raw text argument of compute_ids_summary
    pc,                 \* position inside compute_ids_summary
    ids,                \* extracted identifiers
    result,             \* the report dict under construction
    prefix,             \* prefix / prefix_base local
    k,                  \* position of the for loop over ids (1-based)
    cids_all,           \* set returned by the aggregate call (current layout)
    all_cids,           \* union of the probe results (legacy layout)
    ids_without,        \* ids_without local
    calls,              \* calls made to mw.col.find_cards, in order
    returned,           \* <<>> or <<report returned to the caller>>
    fn,                 \* helper called directly ("none" before the call)
    fn_ids,             \* ids argument of the helper
    fn_out,             \* value returned by the helper
    btnRun,             \* UWorldIdsDialog.btnRun.isEnabled()
    btnCopySyntax,      \* UWorldIdsDialog.btnCopySyntax.isEnabled()
    btnOpenBrowser,     \* UWorldIdsDialog.btnOpenBrowser.isEnabled()
    lblStatus,          \* text of UWorldIdsDialog.lblStatus
    _last_summary,      \* UWorldIdsDialog._last_summary: <<>> for {} or <<report>>
    platform,           \* sys.platform
    cfg_shortcut,       \* "shortcut" of the stored add-on configuration
    config_action,      \* TRUE once setConfigAction registered open_config_dialog
    _menu_action,       \* module global: id of a QAction, 0 for None
    _global_shortcut,   \* module global: id of a QShortcut, 0 for None
    menu_tools,         \* the add-on's QActions in mw.form.menuTools, in order
    mw_shortcuts,       \* the add-on's QShortcuts whose parent is mw
    objects             \* number of Qt objects created so far

vars == <<deck_version_value, ids_questions, pc, ids, result, prefix, k, cids_all,
          all_cids, ids_without, calls, returned, fn, fn_ids, fn_out,
          btnRun, btnCopySyntax, btnOpenBrowser, lblStatus, _last_summary,
          platform, cfg_shortcut, config_action, _menu_action, _global_shortcut,
          menu_tools, mw_shortcuts, objects>>
dialog_vars == <<btnRun, btnCopySyntax, btnOpenBrowser, lblStatus, _last_summary>>
shortcut_vars == <<platform, cfg_shortcut, config_action, _menu_action,
                   _global_shortcut, menu_tools, mw_shortcuts, objects>>
ui_vars == <<dialog_vars, shortcut_vars>>
summary_vars == <<pc, ids, result, prefix, k, cids_all, all_cids, ids_without,
                  calls, returned>>
fn_vars == <<fn, fn_ids, fn_out>>

(* ------------------------------ inputs --------------------------------- *)
Alphabet == {"0", "1", ",", " "}
RECURSIVE SeqsUpTo(_, _)
SeqsUpTo(S, n) ==
    IF n = 0 THEN {<<>>}
    ELSE LET shorter == SeqsUpTo(S, n - 1)
         IN shorter \cup {Append(s, c) : s \in {t \in shorter : Len(t) = n - 1}, c \in S}

ExampleTexts ==
    { <<"1", "0", "0", ",", " ", "1", "0", "0", ",", " ", "2", "0", "0">>,
      <<"3", ",", "3", ",", "1", ",", "2", ",", "1">>,
      <<"7">>,
      <<"a", "b", "\n", "-">>,
      <<"0", "0", "7", "x", "U+0663", "U+0663", ".", "7">> }
Texts == SeqsUpTo(Alphabet, MaxLen) \cup ExampleTexts

\* the texts the two combo boxes can show
Selections == {<<VERSION_LABELS[v], STEP_LABELS[n]>> : v \in 1..2, n \in 1..3}

\* mw.col.find_cards(query): a set of card ids, or an exception
Cards == 1..NumCards
find_cards_outcomes ==
    [raised : {FALSE}, cids : SUBSET Cards] \cup [raised : {TRUE}, cids : {{}}]

EmptyResult(n) ==
    [total_ids_input |-> n, total_cards |-> 0, total_ids_without_cards |-> 0,
     ids_syntax |-> <<>>, ids_without_cards |-> <<>>]

(* ------------------------- compute_ids_summary ------------------------- *)
SummaryInit ==
    /\ pc = "call"
    /\ ids = <<>>
    /\ result = EmptyResult(0)
    /\ prefix = <<>>
    /\ k = 0
    /\ cids_all = {}
    /\ all_cids = {}
    /\ ids_without = <<>>
    /\ calls = <<>>
    /\ returned = <<>>

FnIdle == fn = "none" /\ fn_ids = <<>> /\ fn_out = <<>>

\* UWorldIdsDialog.__init__: Run enabled, the two other buttons disabled
DialogConstructed ==
    /\ btnRun = TRUE
    /\ btnCopySyntax = FALSE
    /\ btnOpenBrowser = FALSE
    /\ lblStatus = ""
    /\ _last_summary = <<>>
\* the module just imported, lines 544-545: nothing bound yet
ModuleLoaded ==
    /\ config_action = FALSE
    /\ _menu_action = 0
    /\ _global_shortcut = 0
    /\ menu_tools = <<>>
    /\ mw_shortcuts = {}
    /\ objects = 0
UiInit ==
    /\ DialogConstructed
    /\ ModuleLoaded
    /\ platform = "linux"
    /\ cfg_shortcut = <<>>

Init ==
    /\ \E sel \in Selections : deck_version_value = _current_version_value(sel[1], sel[2])
    /\ ids_questions \in Texts
    /\ SummaryInit
    /\ FnIdle
    /\ UiInit

\* lines 203-228 and, on the legacy branch, 163-177: everything up to the first
\* call of the collaborator
Call ==
    /\ pc = "call"
    /\ \E ids0 \in {_extract_unique_int_strings(ids_questions)} :
       \E syntax \in {build_tag_or_query(ids0, deck_version_value)} :
          /\ ids' = ids0
          /\ IF ids0 = <<>>
             THEN /\ result' = EmptyResult(0)
                  /\ returned' = <<EmptyResult(0)>>
                  /\ pc' = "done"
                  /\ UNCHANGED <<prefix, k>>
             ELSE IF is_v11_style(deck_version_value)
             THEN /\ result' = EmptyResult(Len(ids0))
                  /\ prefix' = _tag_prefix(deck_version_value)
                  /\ k' = 1
                  /\ pc' = "v11_probe"
                  /\ UNCHANGED returned
             ELSE /\ result' = [EmptyResult(Len(ids0)) EXCEPT !.ids_syntax = syntax]
                  /\ IF syntax = <<>>
                     THEN returned' = <<result'>> /\ pc' = "done"
                     ELSE UNCHANGED returned /\ pc' = "v12_aggregate"
                  /\ UNCHANGED <<prefix, k>>
    /\ UNCHANGED <<deck_version_value, ids_questions, cids_all, all_cids, ids_without,
                   calls>>
    /\ UNCHANGED fn_vars
    /\ UNCHANGED ui_vars

\* note_without inserting at the front of the list
note_without_front(without, id_s, cids) ==
    IF cids = {} THEN <<id_s>> \o without ELSE without

\* lines 182-183 and 237-238: if not cids: ids_without.append(id_s)
note_without(without, id_s, cids) ==
    IF cids = {} THEN Append(without, id_s) ELSE without

\* line 230: cids_all = set(mw.col.find_cards(ids_syntax)); then lines 232-233
V12Aggregate ==
    /\ pc = "v12_aggregate"
    /\ \E out \in find_cards_outcomes :
        /\ calls' = Append(calls, [q |-> result.ids_syntax, raised |-> out.raised,
                                   cids |-> out.cids])
        /\ IF out.raised
           THEN pc' = "raised" /\ UNCHANGED <<cids_all, prefix, k>>
           ELSE /\ cids_all' = out.cids
                /\ prefix' = _tag_prefix(deck_version_value)
                /\ k' = 1
                /\ pc' = "v12_probe"
    /\ UNCHANGED <<deck_version_value, ids_questions, ids, result, all_cids,
                   ids_without, returned>>
    /\ UNCHANGED fn_vars
    /\ UNCHANGED ui_vars

\* lines 234-238: one iteration of the probe loop of the current layout
V12Probe ==
    /\ pc = "v12_probe"
    /\ k <= Len(ids)
    /\ \E out \in find_cards_outcomes :
        /\ calls' = Append(calls, [q |-> exact_fragment(prefix, ids[k]),
                                   raised |-> out.raised, cids |-> out.cids])
        /\ IF out.raised
           THEN pc' = "raised" /\ UNCHANGED <<ids_without, k>>
           ELSE /\ ids_without' = note_without(ids_without, ids[k], out.cids)
                /\ k' = k + 1
                /\ UNCHANGED pc
    /\ UNCHANGED <<deck_version_value, ids_questions, ids, result, prefix, cids_all,
                   all_cids, returned>>
    /\ UNCHANGED fn_vars
    /\ UNCHANGED ui_vars

\* V12Return counting the matched identifiers instead of the matched cards
V12Return_count_ids ==
    /\ pc = "v12_probe"
    /\ k > Len(ids)
    /\ result' = [result EXCEPT !.total_cards = Len(ids) - Len(ids_without),
                                !.total_ids_without_cards = Len(ids_without),
                                !.ids_without_cards = ids_without]
    /\ returned' = <<result'>>
    /\ pc' = "done"
    /\ UNCHANGED <<deck_version_value, ids_questions, ids, prefix, k, cids_all,
                   all_cids, ids_without, calls>>
    /\ UNCHANGED fn_vars
    /\ UNCHANGED ui_vars

\* lines 240-244
V12Return ==
    /\ pc = "v12_probe"
    /\ k > Len(ids)
    /\ result' = [result EXCEPT !.total_cards = Cardinality(cids_all),
                                !.total_ids_without_cards = Len(ids_without),
                                !.ids_without_cards = ids_without]
    /\ returned' = <<result'>>
    /\ pc' = "done"
    /\ UNCHANGED <<deck_version_value, ids_questions, ids, prefix, k, cids_all,
                   all_cids, ids_without, calls>>
    /\ UNCHANGED fn_vars
    /\ UNCHANGED ui_vars

\* V11Probe with the collaborator's exception caught and read as "no cards"
V11Probe_swallow ==
    /\ pc = "v11_probe"
    /\ k <= Len(ids)
    /\ \E out \in find_cards_outcomes :
        /\ calls' = Append(calls, [q |-> wildcard_fragment(prefix, ids[k]),
                                   raised |-> out.raised, cids |-> out.cids])
        /\ ids_without' = note_without(ids_without, ids[k], out.cids)
        /\ all_cids' = all_cids \cup out.cids
        /\ k' = k + 1
        /\ UNCHANGED pc
    /\ UNCHANGED <<deck_version_value, ids_questions, ids, result, prefix, cids_all,
                   returned>>
    /\ UNCHANGED fn_vars
    /\ UNCHANGED ui_vars

\* lines 179-184: one iteration of the probe loop of _compute_ids_summary_v11
V11Probe ==
    /\ pc = "v11_probe"
    /\ k <= Len(ids)
    /\ \E out \in find_cards_outcomes :
        /\ calls' = Append(calls, [q |-> wildcard_fragment(prefix, ids[k]),
                                   raised |-> out.raised, cids |-> out.cids])
        /\ IF out.raised
           THEN pc' = "raised" /\ UNCHANGED <<ids_without, all_cids, k>>
           ELSE /\ ids_without' = note_without(ids_without, ids[k], out.cids)
                /\ all_cids' = all_cids \cup out.cids
                /\ k' = k + 1
                /\ UNCHANGED pc
    /\ UNCHANGED <<deck_version_value, ids_questions, ids, result, prefix, cids_all,
                   returned>>
    /\ UNCHANGED fn_vars
    /\ UNCHANGED ui_vars

\* lines 186-200, and the return of line 221
V11Return ==
    /\ pc = "v11_probe"
    /\ k > Len(ids)
    /\ result' = [result EXCEPT !.total_cards = Cardinality(all_cids),
                                !.total_ids_without_cards = Len(ids_without),
                                !.ids_without_cards = ids_without,
                                !.ids_syntax = v11_ids_syntax(prefix, ids)]
    /\ returned' = <<result'>>
    /\ pc' = "done"
    /\ UNCHANGED <<deck_version_value, ids_questions, ids, prefix, k, cids_all,
                   all_cids, ids_without, calls>>
    /\ UNCHANGED fn_vars
    /\ UNCHANGED ui_vars

Next ==
    \/ Call
    \/ V12Aggregate
    \/ V12Probe
    \/ V12Return
    \/ V11Probe
    \/ V11Return

Spec == Init /\ [][Next]_vars

(* ------------------- the helpers, called on their own ------------------ *)
SelectionTokens == {_current_version_value(sel[1], sel[2]) : sel \in Selections}
MarkedTokens == {<<"#">> \o t : t \in SelectionTokens}
OtherTokens ==
    { <<>>,
      <<"#", "X", ":", ":">>,
      <<"a", "\"">>,
      <<"\\">>,
      <<" ">> }
TokenInputs == SelectionTokens \cup MarkedTokens \cup OtherTokens

IdAlphabet == {"5", "\"", "\\", " "}
IdStrings == SeqsUpTo(IdAlphabet, MaxIdLen)
IdLists == SeqsUpTo(IdStrings, MaxIds)

FnInit ==
    /\ deck_version_value \in TokenInputs
    /\ fn_ids \in IdLists
    /\ fn = "none"
    /\ fn_out = <<>>
    /\ ids_questions = <<>>
    /\ pc = "idle"
    /\ ids = <<>>
    /\ result = EmptyResult(0)
    /\ prefix = <<>>
    /\ k = 0
    /\ cids_all = {}
    /\ all_cids = {}
    /\ ids_without = <<>>
    /\ calls = <<>>
    /\ returned = <<>>
    /\ UiInit

\* _tag_prefix(deck_version_value)
CallTagPrefix ==
    /\ fn = "none"
    /\ fn' = "_tag_prefix"
    /\ fn_out' = _tag_prefix(deck_version_value)
    /\ UNCHANGED <<deck_version_value, ids_questions, fn_ids>>
    /\ UNCHANGED summary_vars
    /\ UNCHANGED ui_vars

\* build_tag_or_query(fn_ids, deck_version_value); prefix is its local of line 155
CallBuildTagOrQuery ==
    /\ fn = "none"
    /\ fn' = "build_tag_or_query"
    /\ prefix' = _tag_prefix(deck_version_value)
    /\ fn_out' = build_tag_or_query(fn_ids, deck_version_value)
    /\ UNCHANGED <<deck_version_value, ids_questions, fn_ids>>
    /\ UNCHANGED <<pc, ids, result, k, cids_all, all_cids, ids_without, calls, returned>>
    /\ UNCHANGED ui_vars

FnNext ==
    \/ CallTagPrefix
    \/ CallBuildTagOrQuery

SpecFn == FnInit /\ [][FnNext]_vars

(* ======================= properties of the summary ===================== *)
Range(seq) == {seq[n] : n \in 1..Len(seq)}
LegacyTokens ==
    {_current_version_value("V11", STEP_LABELS[n]) : n \in 1..3}
        \cup {_current_version_value("V12", "Step 3")}
DecimalDigits == {"0", "1", "2", "3", "4", "5", "6", "7", "8", "9", "U+0663"}
HasNoDigit(text) == \A n \in 1..Len(text) : text[n] \notin DecimalDigits

\* C1: once a call of the search collaborator has raised, compute_ids_summary
\* has stopped with the exception: it returned no report (neither zero-valued
\* nor partial) and made no further call, so the raising call is the last one.
C1_FailurePropagates ==
    \A n \in 1..Len(calls) :
        calls[n].raised => /\ n = Len(calls)
                           /\ pc = "raised"
                           /\ returned = <<>>

\* a probe of the legacy layout raised after an earlier probe had succeeded
C1_Witness ==
    /\ pc = "raised"
    /\ deck_version_value \in LegacyTokens
    /\ Len(calls) = 2
    /\ calls[1].cids # {}
    /\ calls[2].raised

\* C2: for a raw text without any decimal digit, compute_ids_summary makes no
\* call of the search collaborator and returns the all-zero report with an
\* empty ids_syntax and an empty ids_without_cards, whatever the selection.
C2_NoDigitsNoCalls ==
    HasNoDigit(ids_questions) =>
        /\ calls = <<>>
        /\ pc \in {"call", "done"}
        /\ pc = "done" =>
            returned = << [total_ids_input |-> 0, total_cards |-> 0,
                           total_ids_without_cards |-> 0, ids_syntax |-> <<>>,
                           ids_without_cards |-> <<>>] >>

\* a non-empty text of separators only has been summarised
C2_Witness ==
    /\ pc = "done"
    /\ ids_questions = <<",", " ", ",">>
    /\ returned # <<>>

CallsWith(q) == {n \in 1..Len(calls) : calls[n].q = q}
RECURSIVE UnionOfCalls(_)
UnionOfCalls(n) == IF n = 0 THEN {} ELSE calls[n].cids \cup UnionOfCalls(n - 1)

\* C3 as stated: for every selection with a non-empty identifier list the
\* aggregate expression is sent exactly once, next to one probe per identifier,
\* and total_cards is the size of the set that call returned.
C3_AggregateOnceEverySelection ==
    (pc = "done" /\ ids # <<>>) =>
        /\ Cardinality(CallsWith(returned[1].ids_syntax)) = 1
        /\ Len(calls) = Len(ids) + 1
        /\ \A n \in CallsWith(returned[1].ids_syntax) :
               returned[1].total_cards = Cardinality(calls[n].cids)

\* C3 amended: in the current layout the aggregate expression is sent exactly
\* once (before the probes), next to one probe per identifier, and total_cards
\* is the size of the set it returned; in the legacy layout the aggregate
\* expression is never sent, exactly one probe per identifier is made, and
\* total_cards is the size of the union of the sets the probes returned.
C3_AggregateOnceCurrentLayout ==
    (pc = "done" /\ ids # <<>>) =>
        IF deck_version_value \in LegacyTokens
        THEN /\ CallsWith(returned[1].ids_syntax) = {}
             /\ Len(calls) = Len(ids)
             /\ returned[1].total_cards = Cardinality(UnionOfCalls(Len(calls)))
        ELSE /\ CallsWith(returned[1].ids_syntax) = {1}
             /\ Len(calls) = Len(ids) + 1
             /\ returned[1].total_cards = Cardinality(calls[1].cids)

\* a current-layout summary whose aggregate call returned more cards than
\* there are identifiers, while one identifier had no card of its own
C3_Witness ==
    /\ pc = "done"
    /\ deck_version_value \notin LegacyTokens
    /\ Len(ids) = 2
    /\ Cardinality(calls[1].cids) = 2
    /\ returned[1].total_cards = 2
    /\ returned[1].total_ids_without_cards = 1

\* the call that probed ids[n] alone: the aggregate call, if any, comes first
ProbeOf(n) == calls[Len(calls) - Len(ids) + n]
ExpectedProbe(id_s) ==
    IF deck_version_value \in LegacyTokens
    THEN Tag \o <<"#">> \o deck_version_value \o UWORLD_SEGMENT_V11
             \o <<"*", ":", ":">> \o id_s \o Quote
    ELSE Tag \o <<"#">> \o deck_version_value \o UWORLD_SEGMENT_V12 \o id_s \o Quote
RECURSIVE UnmatchedFrom(_)
UnmatchedFrom(n) ==
    IF n > Len(ids) THEN <<>>
    ELSE (IF ProbeOf(n).cids = {} THEN <<ids[n]>> ELSE <<>>) \o UnmatchedFrom(n + 1)

\* C4: in the returned report an identifier is listed in ids_without_cards
\* exactly when the probe sent for it alone returned the empty set; the list
\* keeps the order of the identifiers (first appearance in the text) and
\* total_ids_without_cards is its length.
C4_WithoutCardsIffOwnProbeEmpty ==
    (pc = "done" /\ ids # <<>>) =>
        /\ \A n \in 1..Len(ids) :
              /\ ProbeOf(n).q = ExpectedProbe(ids[n])
              /\ (ids[n] \in Range(returned[1].ids_without_cards))
                     <=> (ProbeOf(n).cids = {})
        /\ returned[1].ids_without_cards = UnmatchedFrom(1)
        /\ returned[1].total_ids_without_cards = Len(returned[1].ids_without_cards)

\* two identifiers without cards, given in decreasing order, although the
\* aggregate call found cards
C4_Witness ==
    /\ pc = "done"
    /\ ids = << <<"1">>, <<"0">> >>
    /\ returned[1].ids_without_cards = << <<"1">>, <<"0">> >>
    /\ returned[1].total_cards > 0

(* ===================== properties of the helpers ======================= *)
Bare(token) == IF token # <<>> /\ Head(token) = "#" THEN Tail(token) ELSE token

\* C5: for every (version, step) token, given with or without the leading "#",
\* the resolved prefix is "#" + token + segment, the segment being the legacy
\* "::#UWorld::" when the token denotes V11 (any step) or V12 step 3 and the
\* current "::#UWorld::Step::" for V12 step 1 and step 2.
C5_PrefixBySelection ==
    (fn = "_tag_prefix" /\ deck_version_value \in SelectionTokens \cup MarkedTokens) =>
        fn_out = <<"#">> \o Bare(deck_version_value)
                     \o (IF Bare(deck_version_value) \in LegacyTokens
                         THEN UWORLD_SEGMENT_V11 ELSE UWORLD_SEGMENT_V12)

\* the maximal digit runs of text, as pairs <<first, last>> of positions
RunStarts(text) ==
    {a \in 1..Len(text) :
        text[a] \in DecimalDigits /\ (a = 1 \/ text[a - 1] \notin DecimalDigits)}
RunEnds(text) ==
    {b \in 1..Len(text) :
        text[b] \in DecimalDigits /\ (b = Len(text) \/ text[b + 1] \notin DecimalDigits)}
DigitRuns(text) ==
    {r \in RunStarts(text) \X RunEnds(text) :
        /\ r[1] <= r[2]
        /\ \A n \in r[1]..r[2] : text[n] \in DecimalDigits}
RunText(text, r) == SubSeq(text, r[1], r[2])
FirstStart(text, str) ==
    CHOOSE a \in RunStarts(text) :
        /\ \E r \in DigitRuns(text) : r[1] = a /\ RunText(text, r) = str
        /\ \A r \in DigitRuns(text) : RunText(text, r) = str => a <= r[1]

\* C6: the identifiers extracted from the text are exactly its maximal digit
\* runs, verbatim (leading zeros kept), without repetition and in the order
\* of their first occurrence; "3,3,1,2,1" gives 3, 1, 2 and a text without
\* digits gives the empty sequence.
C6_ExtractMaximalRuns ==
    pc # "call" =>
        /\ Range(ids) = {RunText(ids_questions, r) : r \in DigitRuns(ids_questions)}
        /\ \A m, n \in 1..Len(ids) :
               m < n => FirstStart(ids_questions, ids[m]) < FirstStart(ids_questions, ids[n])
        /\ ids_questions = <<"3", ",", "3", ",", "1", ",", "2", ",", "1">>
               => ids = << <<"3">>, <<"1">>, <<"2">> >>
        /\ HasNoDigit(ids_questions) => ids = <<>>

\* repeated runs, leading zeros and a non-ASCII decimal digit in one text
C6_Witness ==
    /\ pc # "call"
    /\ ids_questions = <<"0", "0", "7", "x", "U+0663", "U+0663", ".", "7">>
    /\ ids = << <<"0", "0", "7">>, <<"U+0663", "U+0663">>, <<"7">> >>

RECURSIVE OrOfTerms(_, _)
OrOfTerms(terms, n) ==
    IF n > Len(terms) THEN <<>>
    ELSE (IF n > 1 THEN <<" ", "O", "R", " ">> ELSE <<>>) \o terms[n]
             \o OrOfTerms(terms, n + 1)
Parenthesized(terms) == <<"(">> \o OrOfTerms(terms, 1) \o <<")">>

Scenario_100_200 ==
    <<"1", "0", "0", ",", " ", "1", "0", "0", ",", " ", "2", "0", "0">>
Scenario_100_200_syntax ==
        <<"(", "t", "a", "g", ":", "\"", "#", "A", "K", "_", "S", "t", "e", "p", "1",
          "_", "v", "1", "2", ":", ":", "#", "U", "W", "o", "r", "l", "d", ":", ":",
          "S", "t", "e", "p", ":", ":", "1", "0", "0", "\"", " ", "O", "R", " ", "t",
          "a", "g", ":", "\"", "#", "A", "K", "_", "S", "t", "e", "p", "1", "_", "v",
          "1", "2", ":", ":", "#", "U", "W", "o", "r", "l", "d", ":", ":", "S", "t",
          "e", "p", ":", ":", "2", "0", "0", "\"", ")">>

\* C7: in the current layout the aggregate expression is "(" + the terms
\* tag:"<prefix><id>" joined by " OR ", one per identifier in input order, + ")"
\* with prefix = "#" + token + "::#UWorld::Step::"; it is empty when there is no
\* identifier; (V12, Step 1) with "100, 100, 200" gives the two-term expression.
C7_ExactAggregateExpression ==
    (pc # "call" /\ deck_version_value \notin LegacyTokens) =>
        /\ result.ids_syntax =
               IF ids = <<>> THEN <<>>
               ELSE Parenthesized(
                      [n \in 1..Len(ids) |->
                          <<"t", "a", "g", ":", "\"">> \o <<"#">> \o deck_version_value
                              \o UWORLD_SEGMENT_V12 \o ids[n] \o <<"\"">>])
        /\ pc = "done" => returned[1].ids_syntax = result.ids_syntax
        /\ (deck_version_value = _current_version_value("V12", "Step 1")
                /\ ids_questions = Scenario_100_200)
               => result.ids_syntax = Scenario_100_200_syntax

\* the scenario (V12, Step 1), "100, 100, 200", summarised to the end
C7_Witness ==
    /\ pc = "done"
    /\ deck_version_value = AK_Step1_v12
    /\ ids_questions = Scenario_100_200
    /\ returned[1].ids_syntax = Scenario_100_200_syntax

Token_X == <<"#", "X", ":", ":">>
Ids_5 == << <<"5">> >>
HasQuote(str) == \E n \in 1..Len(str) : str[n] = "\""

\* C8 as stated: the builder called with ["5"] and "#X::" returns (tag:"#X::5").
C8_GivenPrefixVerbatim ==
    (fn = "build_tag_or_query" /\ deck_version_value = Token_X /\ fn_ids = Ids_5) =>
        fn_out =
            <<"(", "t", "a", "g", ":", "\"", "#", "X", ":", ":", "5", "\"", ")">>

\* C8 amended: the builder resolves the tag prefix from the token it is given
\* and uses that resolved prefix verbatim, with nothing between it and the
\* identifier: ["5"] with "#X::" gives (tag:"#X::::#UWorld::Step::5").
C8_ResolvedPrefixVerbatim ==
    fn = "build_tag_or_query" =>
        /\ (deck_version_value = Token_X /\ fn_ids = Ids_5) =>
               fn_out =
                   <<"(", "t", "a", "g", ":", "\"", "#", "X", ":", ":", ":", ":", "#",
                     "U", "W", "o", "r", "l", "d", ":", ":", "S", "t", "e", "p", ":",
                     ":", "5", "\"", ")">>
        /\ (~HasQuote(prefix) /\ \A n \in 1..Len(fn_ids) : ~HasQuote(fn_ids[n])) =>
               LET kept == SelectSeq([n \in 1..Len(fn_ids) |-> strip(fn_ids[n])],
                                     LAMBDA x : x # <<>>)
               IN fn_out =
                      IF kept = <<>> THEN <<>>
                      ELSE Parenthesized(
                             [n \in 1..Len(kept) |->
                                 <<"t", "a", "g", ":", "\"">> \o prefix \o kept[n] \o <<"\"">>])

\* the builder has been called with ["5"] and "#X::"
C8_Witness ==
    /\ fn = "build_tag_or_query"
    /\ deck_version_value = Token_X
    /\ fn_ids = Ids_5
    /\ prefix = Token_X \o UWORLD_SEGMENT_V12
    /\ fn_out # <<>>

WildcardTerm(id_s) ==
    <<"t", "a", "g", ":", "\"">> \o <<"#">> \o deck_version_value
        \o <<":", ":", "#", "U", "W", "o", "r", "l", "d", ":", ":">>
        \o <<"*", ":", ":">> \o id_s \o <<"\"">>
Fragment_Step3_7 ==
    <<"t", "a", "g", ":", "\"", "#", "A", "K", "_", "S", "t", "e", "p", "3", "_", "v",
      "1", "2", ":", ":", "#", "U", "W", "o", "r", "l", "d", ":", ":", "*", ":", ":",
      "7", "\"">>

\* C9: in the legacy layout (any V11 step, V12 step 3) the fragment probed for
\* an identifier is tag:"<prefix>*::<id>" and ids_syntax is the parenthesized OR
\* of exactly those fragments in input order; (V12, Step 3) with "7" probes
\* tag:"#AK_Step3_v12::#UWorld::*::7".
C9_LegacyWildcardFragments ==
    deck_version_value \in LegacyTokens =>
        /\ \A n \in 1..Len(calls) : calls[n].q = WildcardTerm(ids[n])
        /\ (pc = "done" /\ ids # <<>>) =>
              /\ Len(calls) = Len(ids)
              /\ returned[1].ids_syntax =
                     Parenthesized([n \in 1..Len(ids) |-> WildcardTerm(ids[n])])
        /\ (deck_version_value = AK_Step3_v12 /\ ids = << <<"7">> >> /\ calls # <<>>)
               => calls[1].q = Fragment_Step3_7

\* (V12, Step 3) with the text "7", summarised to the end
C9_Witness ==
    /\ pc = "done"
    /\ deck_version_value = _current_version_value("V12", "Step 3")
    /\ ids_questions = <<"7">>
    /\ calls[1].q = Fragment_Step3_7
    /\ returned[1].ids_syntax = <<"(">> \o Fragment_Step3_7 \o <<")">>

\* a quote-aware reader: a backslash takes the next character literally, an
\* unescaped double quote ends the literal
RECURSIVE ReadLiteral(_, _)
ReadLiteral(str, acc) ==
    IF str = <<>> THEN [ok |-> FALSE, lit |-> acc, rest |-> <<>>]
    ELSE IF Head(str) = "\\"
         THEN IF Len(str) >= 2
              THEN ReadLiteral(SubSeq(str, 3, Len(str)), Append(acc, str[2]))
              ELSE [ok |-> FALSE, lit |-> acc, rest |-> <<>>]
    ELSE IF Head(str) = "\"" THEN [ok |-> TRUE, lit |-> acc, rest |-> Tail(str)]
    ELSE ReadLiteral(Tail(str), Append(acc, Head(str)))

\* the literals of term (" OR " term)* ")", each term being tag:"literal"
RECURSIVE ReadTerms(_, _)
ReadTerms(str, acc) ==
    IF ~startswith(str, <<"t", "a", "g", ":", "\"">>) THEN [ok |-> FALSE, lits |-> acc]
    ELSE LET r == ReadLiteral(SubSeq(str, 6, Len(str)), <<>>)
         IN IF ~r.ok THEN [ok |-> FALSE, lits |-> acc]
            ELSE IF r.rest = <<")">> THEN [ok |-> TRUE, lits |-> Append(acc, r.lit)]
            ELSE IF startswith(r.rest, <<" ", "O", "R", " ">>)
                 THEN ReadTerms(SubSeq(r.rest, 5, Len(r.rest)), Append(acc, r.lit))
            ELSE [ok |-> FALSE, lits |-> acc]
ReadExpression(str) ==
    IF str # <<>> /\ Head(str) = "(" THEN ReadTerms(Tail(str), <<>>)
    ELSE [ok |-> FALSE, lits |-> <<>>]

\* C10: whatever the prefix and the identifiers (double quotes and backslashes
\* included), reading the built expression back with the quote-aware reader
\* gives, term by term, the original literal prefix + identifier.
C10_EscapeRoundTrip ==
    (fn = "build_tag_or_query" /\ fn_out # <<>>) =>
        LET kept == SelectSeq([n \in 1..Len(fn_ids) |-> strip(fn_ids[n])],
                              LAMBDA x : x # <<>>)
            read == ReadExpression(fn_out)
        IN /\ read.ok
           /\ read.lits = [n \in 1..Len(kept) |-> prefix \o kept[n]]

DefaultPrefix ==
    <<"#", "A", "K", "_", "S", "t", "e", "p", "1", "_", "v", "1", "2", ":", ":", "#",
      "U", "W", "o", "r", "l", "d", ":", ":", "S", "t", "e", "p", ":", ":">>

\* C11 as stated: for the empty string and for every token that is not one of
\* the six (version, step) tokens the resolved prefix is the default one,
\* "#AK_Step1_v12::#UWorld::Step::".
C11_FallbackForEveryOtherToken ==
    (fn = "_tag_prefix" /\ deck_version_value \notin SelectionTokens) =>
        fn_out = DefaultPrefix

\* C11 amended: only the empty (or whitespace-only) token falls back to the
\* default token AK_Step1_v12, giving "#AK_Step1_v12::#UWorld::Step::"; a
\* non-empty token outside the six is kept, marked with "#" if it is not yet,
\* and followed by a namespace segment: "#X::" gives "#X::::#UWorld::Step::".
C11_FallbackOnlyForEmptyToken ==
    fn = "_tag_prefix" =>
        IF \A n \in 1..Len(deck_version_value) : deck_version_value[n] = " "
        THEN fn_out = DefaultPrefix
        ELSE /\ fn_out \in {<<"#">> \o Bare(deck_version_value) \o UWORLD_SEGMENT_V11,
                            <<"#">> \o Bare(deck_version_value) \o UWORLD_SEGMENT_V12}
             /\ deck_version_value = Token_X =>
                    fn_out = Token_X \o UWORLD_SEGMENT_V12 /\ fn_out # DefaultPrefix

\* the prefix has been resolved for the empty token
C11_Witness ==
    /\ fn = "_tag_prefix"
    /\ deck_version_value = <<>>
    /\ fn_out = DefaultPrefix

(* ------------------------- the main dialog ----------------------------- *)
\* texts typed into txtIds
DialogTexts == {<<>>, <<",">>, <<"7">>}

\* _set_busy with the busy branch leaving the Run button as it is (enabled)
_set_busy_run_stays(busy, summary) ==
    IF busy
    THEN [lblStatus |-> "Searching", btnRun |-> TRUE, btnCopySyntax |-> FALSE,
          btnOpenBrowser |-> FALSE]
    ELSE LET enable == summary # <<>> /\ summary[1].ids_syntax # <<>>
         IN [lblStatus |-> "Done", btnRun |-> TRUE, btnCopySyntax |-> enable,
             btnOpenBrowser |-> enable]

\* UWorldIdsDialog._set_busy(busy), summary being self._last_summary: the
\* widget states it leaves behind
_set_busy(busy, summary) ==
    IF busy
    THEN [lblStatus |-> "Searching", btnRun |-> FALSE, btnCopySyntax |-> FALSE,
          btnOpenBrowser |-> FALSE]
    ELSE LET enable == summary # <<>> /\ summary[1].ids_syntax # <<>>
         IN [lblStatus |-> "Done", btnRun |-> TRUE, btnCopySyntax |-> enable,
             btnOpenBrowser |-> enable]

SetWidgets(w) ==
    /\ lblStatus' = w.lblStatus
    /\ btnRun' = w.btnRun
    /\ btnCopySyntax' = w.btnCopySyntax
    /\ btnOpenBrowser' = w.btnOpenBrowser

DialogInit ==
    /\ deck_version_value = <<>>
    /\ ids_questions = <<>>
    /\ pc = "idle"
    /\ ids = <<>>
    /\ result = EmptyResult(0)
    /\ prefix = <<>>
    /\ k = 0
    /\ cids_all = {}
    /\ all_cids = {}
    /\ ids_without = <<>>
    /\ calls = <<>>
    /\ returned = <<>>
    /\ FnIdle
    /\ UiInit

\* run_query, lines 402-433: the click on Run (delivered only to an enabled
\* button) reads the widgets, shows the busy state and submits work, which
\* starts compute_ids_summary in the background
RunQuery ==
    /\ btnRun
    /\ \E sel \in Selections, text \in DialogTexts :
        /\ deck_version_value' = _current_version_value(sel[1], sel[2])
        /\ ids_questions' = text
    /\ SetWidgets(_set_busy(TRUE, _last_summary))
    /\ pc' = "call"
    /\ ids' = <<>>
    /\ result' = EmptyResult(0)
    /\ prefix' = <<>>
    /\ k' = 0
    /\ cids_all' = {}
    /\ all_cids' = {}
    /\ ids_without' = <<>>
    /\ calls' = <<>>
    /\ returned' = <<>>
    /\ UNCHANGED _last_summary
    /\ UNCHANGED fn_vars
    /\ UNCHANGED shortcut_vars

\* on_done, lines 412-431: fut.result() is the report, or raises what work
\* raised and the summary becomes {}; the finally clause ends the busy state
OnDone ==
    /\ pc \in {"done", "raised"}
    /\ LET summary == IF pc = "raised" THEN <<>> ELSE returned
       IN /\ _last_summary' = summary
          /\ SetWidgets(_set_busy(FALSE, summary))
    /\ pc' = "idle"
    /\ deck_version_value' = <<>>
    /\ ids_questions' = <<>>
    /\ ids' = <<>>
    /\ result' = EmptyResult(0)
    /\ prefix' = <<>>
    /\ k' = 0
    /\ cids_all' = {}
    /\ all_cids' = {}
    /\ ids_without' = <<>>
    /\ calls' = <<>>
    /\ returned' = <<>>
    /\ UNCHANGED fn_vars
    /\ UNCHANGED shortcut_vars

\* the steps taken by mw.taskman for a submitted task: the work, then on_done
BackgroundTask ==
    \/ Call
    \/ V12Aggregate
    \/ V12Probe
    \/ V12Return
    \/ V11Probe
    \/ V11Return
    \/ OnDone

DialogNext ==
    \/ RunQuery
    \/ Call
    \/ V12Aggregate
    \/ V12Probe
    \/ V12Return
    \/ V11Probe
    \/ V11Return
    \/ OnDone

SpecDialog == DialogInit /\ [][DialogNext]_vars /\ WF_vars(BackgroundTask)

InFlight == pc # "idle"
HasSyntax(summary) == summary # <<>> /\ summary[1].ids_syntax # <<>>

\* C12: while a search is in flight (from the click on Run until on_done has
\* run) Run, Copy and Open-in-Browser are all disabled; every search, failed
\* or not, leads to Run being enabled again; when no search is in flight Copy
\* and Open-in-Browser are enabled exactly when the stored summary has a
\* non-empty ids_syntax; and the completion of a failed search stores the
\* empty summary, leaving both disabled.
C12_BusyButtons ==
    /\ [](InFlight => ~btnRun /\ ~btnCopySyntax /\ ~btnOpenBrowser)
    /\ [](~InFlight => /\ btnRun
                       /\ btnCopySyntax = HasSyntax(_last_summary)
                       /\ btnOpenBrowser = HasSyntax(_last_summary))
    /\ (InFlight ~> btnRun)
    /\ [][pc = "raised" =>
             _last_summary' = <<>> /\ ~btnCopySyntax' /\ ~btnOpenBrowser' /\ btnRun']_vars

\* a search has failed and its completion callback has run: the dialog shows
\* "Done" with Run enabled again, the empty summary stored and nothing to copy
C12_Witness ==
    /\ pc = "idle"
    /\ lblStatus = "Done"
    /\ _last_summary = <<>>
    /\ btnRun
    /\ ~btnCopySyntax
    /\ ~btnOpenBrowser

(* --------- compute_ids_summary called with any selection string -------- *)
AnyTexts == {<<>>, <<"7">>, <<"1", ",", "0">>}

AnyInit ==
    /\ deck_version_value \in TokenInputs
    /\ ids_questions \in AnyTexts
    /\ SummaryInit
    /\ FnIdle
    /\ UiInit

SpecAny == AnyInit /\ [][Next]_vars

LegacyPrefix(p) == endswith(p, UWORLD_SEGMENT_V11) /\ ~endswith(p, UWORLD_SEGMENT_V12)
CurrentPrefix(p) == endswith(p, UWORLD_SEGMENT_V12)
\* the path compute_ids_summary has taken, read from its position and from the
\* first query it sent: the current layout starts with the aggregate "(...)"
OnWildcardPath ==
    \/ pc = "v11_probe"
    \/ pc \in {"done", "raised"} /\ calls # <<>> /\ Head(calls).q[1] # "("
OnExactPath ==
    \/ pc \in {"v12_aggregate", "v12_probe"}
    \/ pc \in {"done", "raised"} /\ calls # <<>> /\ Head(calls).q[1] = "("
IsWildcardQuery(q) ==
    \E n \in 1..(Len(q) - 2) : SubSeq(q, n, n + 2) = <<"*", ":", ":">>

\* C13: for every selection string, compute_ids_summary is on the wildcard
\* (legacy) path exactly when _tag_prefix gives a prefix ending with
\* "::#UWorld::" and not with "::#UWorld::Step::"; the prefix in use on the
\* wildcard path is a legacy one, on the exact path a current one, and a
\* wildcard query is only ever sent on the wildcard path.
C13_LayoutDecisionsAgree ==
    (pc # "call" /\ ids # <<>>) =>
        /\ OnWildcardPath <=> LegacyPrefix(_tag_prefix(deck_version_value))
        /\ OnExactPath <=> CurrentPrefix(_tag_prefix(deck_version_value))
        /\ (OnWildcardPath /\ prefix # <<>>) => LegacyPrefix(prefix)
        /\ (OnExactPath /\ prefix # <<>>) => CurrentPrefix(prefix)
        /\ \A n \in 1..Len(calls) : IsWildcardQuery(calls[n].q) <=> OnWildcardPath

\* a legacy summary finished for a token given with the "#" marker
C13_Witness ==
    /\ pc = "done"
    /\ deck_version_value = <<"#">> \o AK_Step1_v11
    /\ Len(ids) = 2
    /\ OnWildcardPath
    /\ LegacyPrefix(prefix)

(* ------------------ menu action and global shortcut -------------------- *)
MaxObjects == 7

Key_Meta_Alt_U == <<"M", "e", "t", "a", "+", "A", "l", "t", "+", "U">>
Key_Ctrl_Alt_U == <<"C", "t", "r", "l", "+", "A", "l", "t", "+", "U">>
Key_Ctrl_K == <<"C", "t", "r", "l", "+", "K">>
Key_F5 == <<"F", "5">>
\* texts QKeySequence(text).toString() gives a non-empty string for
ValidKeySequences == {Key_Meta_Alt_U, Key_Ctrl_Alt_U, Key_Ctrl_K, Key_F5}
\* texts typed into txtShortcut
ShortcutTexts ==
    {<<>>, <<" ">>, Key_F5, <<" ">> \o Key_Ctrl_K \o <<" ">>, <<"b", "o", "g", "u", "s">>}
StoredShortcuts == {<<>>, Key_F5, Key_Ctrl_K}

_platform_default_shortcut(pf) ==
    IF pf = "darwin" THEN Key_Meta_Alt_U ELSE Key_Ctrl_Alt_U

\* _get_config()["shortcut"]; the same value is written back to the store
_get_config_shortcut(stored, pf) ==
    IF stored = <<>> THEN _platform_default_shortcut(pf) ELSE stored

\* _menu_action.setShortcut(QKeySequence(sc)) on the action with that id
setShortcut(menu, id, sc) ==
    [n \in 1..Len(menu) |-> IF menu[n].id = id THEN [menu[n] EXCEPT !.key = sc] ELSE menu[n]]

\* _apply_shortcut_from_config with the configuration store holding stored and
\* the module globals menu_action, global_shortcut; new_id is the QShortcut made.
\* setParent(None) detaches the previous QShortcut from mw (if it raises, the
\* wrapped object is already deleted and is not on mw either).
_apply_shortcut_from_config(stored, menu_action, global_shortcut, menu, shortcuts, new_id) ==
    LET sc == _get_config_shortcut(stored, platform)
        detached == IF global_shortcut # 0
                    THEN {b \in shortcuts : b.id # global_shortcut}
                    ELSE shortcuts
    IN [cfg_shortcut |-> sc,
        menu_tools |-> IF menu_action # 0 THEN setShortcut(menu, menu_action, sc) ELSE menu,
        mw_shortcuts |-> detached \cup {[id |-> new_id, key |-> sc]},
        _global_shortcut |-> new_id]

ShortcutInit ==
    /\ platform \in {"darwin", "linux"}
    /\ cfg_shortcut \in StoredShortcuts
    /\ ModuleLoaded
    /\ DialogConstructed
    /\ deck_version_value = <<>>
    /\ ids_questions = <<>>
    /\ pc = "idle"
    /\ ids = <<>>
    /\ result = EmptyResult(0)
    /\ prefix = <<>>
    /\ k = 0
    /\ cids_all = {}
    /\ all_cids = {}
    /\ ids_without = <<>>
    /\ calls = <<>>
    /\ returned = <<>>
    /\ FnIdle

\* on_profile_open, lines 573-590: a new QAction is added to the Tools menu and
\* becomes _menu_action, then the shortcut is applied
on_profile_open ==
    /\ objects + 2 <= MaxObjects
    /\ LET action_id == objects + 1
           applied == _apply_shortcut_from_config(
                          cfg_shortcut, action_id, _global_shortcut,
                          Append(menu_tools, [id |-> action_id, key |-> <<>>]),
                          mw_shortcuts, objects + 2)
       IN /\ config_action' = TRUE
          /\ _menu_action' = action_id
          /\ cfg_shortcut' = applied.cfg_shortcut
          /\ menu_tools' = applied.menu_tools
          /\ mw_shortcuts' = applied.mw_shortcuts
          /\ _global_shortcut' = applied._global_shortcut
          /\ objects' = objects + 2
    /\ UNCHANGED platform
    /\ UNCHANGED <<deck_version_value, ids_questions>>
    /\ UNCHANGED summary_vars
    /\ UNCHANGED fn_vars
    /\ UNCHANGED dialog_vars

\* ShortcutConfigDialog.save, lines 527-539, in the dialog that the registered
\* configuration action opens; text is what txtShortcut holds
save ==
    /\ config_action
    /\ objects + 1 <= MaxObjects
    /\ \E text \in ShortcutTexts :
        LET new_shortcut == IF strip(text) = <<>> THEN _platform_default_shortcut(platform)
                            ELSE strip(text)
            applied == _apply_shortcut_from_config(
                           new_shortcut, _menu_action, _global_shortcut, menu_tools,
                           mw_shortcuts, objects + 1)
        IN IF new_shortcut \notin ValidKeySequences
           THEN UNCHANGED <<cfg_shortcut, menu_tools, mw_shortcuts, _global_shortcut,
                            objects>>
           ELSE /\ cfg_shortcut' = applied.cfg_shortcut
                /\ menu_tools' = applied.menu_tools
                /\ mw_shortcuts' = applied.mw_shortcuts
                /\ _global_shortcut' = applied._global_shortcut
                /\ objects' = objects + 1
    /\ UNCHANGED <<platform, config_action, _menu_action>>
    /\ UNCHANGED <<deck_version_value, ids_questions>>
    /\ UNCHANGED summary_vars
    /\ UNCHANGED fn_vars
    /\ UNCHANGED dialog_vars

ShortcutNext ==
    \/ on_profile_open
    \/ save

SpecShortcut == ShortcutInit /\ [][ShortcutNext]_vars

EffectiveShortcut ==
    IF cfg_shortcut = <<>>
    THEN (IF platform = "darwin" THEN Key_Meta_Alt_U ELSE Key_Ctrl_Alt_U)
    ELSE cfg_shortcut

\* C14: after any sequence of profile-open events and settings saves the main
\* window carries at most one global shortcut of the add-on and the Tools menu
\* at most one action of the add-on, and the one shortcut is the one held in
\* _global_shortcut, bound to the shortcut string stored in the configuration
\* (the platform default when that is empty).
C14_SingleBindingAndAction ==
    /\ Cardinality(mw_shortcuts) <= 1
    /\ Len(menu_tools) <= 1
    /\ \A b \in mw_shortcuts : b.id = _global_shortcut /\ b.key = EffectiveShortcut

====
